---- MODULE Spec2Model ----
(***************************************************************************)
(* Access-control state machine of the Secure Lockbox System               *)
(* (src/Algorithms & Codes/Algorithm.py, class SecureLockboxSystem).       *)
(*                                                                         *)
(* Two kinds of threads run: the main thread (main_loop and everything it  *)
(* calls) and the daemon threads started by initiate_lockout, each running *)
(* lockout_timer.  The threads share the object's fields without any lock, *)
(* so every read and every write of a shared field is a step of its own:   *)
(* "x += 1" is a load followed by a store.                                 *)
(*                                                                         *)
(* Time is counted in ticks of TickLen seconds.  A step of a thread takes  *)
(* no time by itself; Tick happens where the main thread waits without a   *)
(* bound: in the loop, in the wait for the release of a button, and in PIN *)
(* entry.                                                                  *)
(***************************************************************************)
EXTENDS Integers, Sequences, FiniteSets, TLC

\* ---------------------------------------------------------------- constants
NumButtons == 31            \* setup_gpio_expanders: 31 button pins
max_attempts == 3           \* __init__: self.max_attempts
lockout_duration == 300     \* __init__: self.lockout_duration (seconds)
pin_timeout == 30           \* handle_pin_entry: pin_timeout (seconds)
PinLength == 4              \* handle_pin_entry: len(entered_pin) == 4

\* ------------------------------------------------------------------- bounds
TickLen == 150              \* seconds per tick of the model's clock
MaxTimers == 2              \* lockout threads alive at the same time
MaxFailed == 4              \* cap of failed_attempts in the model
MaxResets == 2              \* calls of reset_system in a row
MaxSamples == 6             \* samples taken of one input line
KeyTickLen == 10            \* seconds per tick of the clock of PIN entry alone
MaxKeysDown == 2            \* keypad keys that read pressed during one scan

\* ------------------------------------------------------------ configuration
\* load_configuration: the default tree sequence and the two default PINs.
\* config.get('tree_sequence', ...) may hold any sequence of positions; the
\* model also runs with a path that does not start at position 0.
DefaultPath == <<0, 1, 3, 7, 15>>
ConfiguredPaths == {DefaultPath, <<1, 3>>}

salt == <<"lockbox_secure_salt_2024">>

\* hash_pin: sha256 of the PIN followed by the salt.  The digest is modelled
\* as the tagged preimage: equal digests exactly for equal preimages.
hash_pin(pin) == <<"sha256">> \o pin \o salt

correct_pin_hash == hash_pin(<<1, 2, 3, 4>>)
admin_pin_hash == hash_pin(<<9, 9, 9, 9>>)

\* The buttons the model's user presses: the positions of the default path,
\* one position between them and one after the last.  Every other line always
\* reads released.
PressedButtons == {0, 1, 2, 3, 7, 15, 16}

\* The PINs the model's user types, key by key (keypad_keys holds 1..9): the
\* primary PIN, the admin PIN and a wrong one.
TypedPins == {<<1, 2, 3, 4>>, <<9, 9, 9, 9>>, <<1, 2, 3, 9>>}
Keys == {1, 2, 3, 4, 9}
IsPrefix(p, q) == Len(p) <= Len(q) /\ SubSeq(q, 1, Len(p)) = p

VARIABLES
    correct_path,      \* self.correct_path
    current_step,      \* self.current_step
    unlocked,          \* self.unlocked
    system_locked,     \* self.system_locked
    failed_attempts,   \* self.failed_attempts
    pc,                \* position of the main thread
    idx,               \* check_tree_buttons: loop variable idx
    reg,               \* main thread: value loaded by the pending "+= 1"
    entered_pin,       \* handle_pin_entry: entered_pin
    pin_elapsed,       \* handle_pin_entry: time.time() - start_time, in ticks
    timers,            \* the lockout threads: how many are in each thread state
    stop,              \* why main_loop ended: "none", "shutdown", "error"
    trail,             \* history: correct presses since the last session reset
    lock_age,          \* history: ticks since the last entry of initiate_lockout
    actuations,        \* history: unlock_mechanism calls of this handle_pin_entry
    ev,                \* history: the last step of the main thread, [op, lk,
                       \* arg]: its name, the value of system_locked it
                       \* started with, a detail
    pre,               \* history: the fields as they were when the press or
                       \* the PIN being handled was confirmed, and the value
                       \* its failure stored in failed_attempts
    undisturbed,       \* history: no lockout thread has written current_step,
                       \* unlocked or failed_attempts since the session was
                       \* last at its idle baseline
    calls,             \* reset_system alone: the calls made so far
    line,              \* one input line alone: the levels it will read at
                       \* the coming samples (TRUE: pressed)
    seen,              \* one input line alone: the levels sampled so far
    events,            \* one input line alone: the press events produced
    idle,              \* PIN entry alone, history: ticks since the last
                       \* accepted key, or since the entry of the phase
    kp,                \* scan_keypad alone: col_idx, row_idx, the columns
                       \* configured as outputs, the levels of the keys, the
                       \* value returned
    fault,             \* one transition alone: the collaborator that fails
                       \* and the fields as they were before the transition
    boot               \* construction alone: the inputs of __init__ and what
                       \* it has done

vars == <<correct_path, current_step, unlocked, system_locked, failed_attempts,
          pc, idx, reg, entered_pin, pin_elapsed, timers, stop,
          trail, lock_age, actuations, ev, pre, undisturbed,
          calls, line, seen, events, idle, kp, fault, boot>>

shared == <<current_step, unlocked, system_locked, failed_attempts>>
history == <<ev, pre, undisturbed>>
apart == <<idle, kp, fault, boot>>
alone == <<calls, line, seen, events, apart>>
mainLocal == <<pc, idx, reg, entered_pin, pin_elapsed>>

\* ------------------------------------------------------------------ helpers
\* lockout_timer sleeps lockout_duration seconds: that many ticks, rounded up.
CooldownTicks == (lockout_duration + TickLen - 1) \div TickLen

\* A lockout thread sleeps with `left` ticks to go, or is past its sleep and
\* about to run line 429 (t_failed), line 270 (t_step) or line 271 (t_unl).
\* Threads in the same state are interchangeable: timers counts them.
TimerStates ==
    [pc : {"sleep"}, left : 0..CooldownTicks]
      \cup [pc : {"t_failed", "t_step", "t_unl"}, left : {0}]
Sleeping(n) == [pc |-> "sleep", left |-> n]
Past(p) == [pc |-> p, left |-> 0]
RECURSIVE SleepingUpTo(_, _)
SleepingUpTo(t, n) ==
    IF n < 0 THEN 0 ELSE t[Sleeping(n)] + SleepingUpTo(t, n - 1)
NumTimersOf(t) ==
    SleepingUpTo(t, CooldownTicks)
      + t[Past("t_failed")] + t[Past("t_step")] + t[Past("t_unl")]
NumTimers == NumTimersOf(timers)
Move(t, from, to) ==
    [s \in TimerStates |->
        t[s] + (IF s = to THEN 1 ELSE 0) - (IF s = from THEN 1 ELSE 0)]

Event(op, arg) == [op |-> op, lk |-> system_locked, arg |-> arg]

Running == stop = "none"

\* check_tree_buttons line 317: idx == self.correct_path[self.current_step]
InRange(step, path) == step < Len(path)
IsCorrectButton(i, step, path) == i = path[step + 1]

\* A variant of line 323 with ">" for ">=": the last press of the path does
\* not complete it.
SequenceComplete_Strict(step, path) == step > Len(path)

\* check_tree_buttons line 323
SequenceComplete(step, path) == step >= Len(path)

\* A variant of lines 335 and 470 with ">" for ">=": the lockout comes one
\* failure late.
LockoutDue_Strict(f) == f > max_attempts

\* lines 335 and 470: self.failed_attempts >= self.max_attempts
LockoutDue(f) == f >= max_attempts

\* handle_pin_entry line 443: time.time() - start_time > pin_timeout
PinTimedOut(elapsed) == elapsed * TickLen > pin_timeout

\* A variant of lines 456-465 in which the admin PIN takes the branch of the
\* primary PIN.
PinVerdict_AdminUnlocks(pin) ==
    IF hash_pin(pin) = correct_pin_hash \/ hash_pin(pin) = admin_pin_hash
      THEN "primary"
      ELSE "invalid"

\* handle_pin_entry lines 456-465: which branch a complete PIN takes
PinVerdict(pin) ==
    IF hash_pin(pin) = correct_pin_hash THEN "primary"
    ELSE IF hash_pin(pin) = admin_pin_hash THEN "admin"
    ELSE "invalid"

\* Ticks after which PinTimedOut holds; pin_elapsed is not counted further.
PinTicks == pin_timeout \div TickLen + 1

\* ------------------------------------------------------------------ history
\* The history variables record what happened; no action reads them.
NoPre == [step |-> 0, failed |-> 0, locked |-> FALSE, counted |-> 0]
ConfirmOps == {"press_correct", "press_wrong", "press_error",
               "primary", "admin", "invalid"}
CountOps == {"c_load", "c_store", "w_load", "w_store", "p_load", "p_store"}
StoreOps == {"w_store", "p_store"}

\* The idle baseline of the session: no progress, and the main thread
\* between two presses.
Baseline(step, unl, tr, p) ==
    step = 0 /\ ~unl /\ tr = <<>> /\ p \in {"loop", "scan"}

\* A step of a lockout thread that writes a field of the session or the
\* failure counter (lines 429, 270, 271).
TimerWrote ==
    \/ timers'[Past("t_step")] > timers[Past("t_step")]
    \/ timers'[Past("t_unl")] > timers[Past("t_unl")]
    \/ timers'[Past("t_unl")] < timers[Past("t_unl")]

\* Conjoined last to every action: the history of the step just taken.
\* pre is kept from the confirmation of a press or a PIN to the store of the
\* counter it changes.
History ==
    /\ pre' = IF ev' = ev THEN pre
              ELSE IF ev'.op \in ConfirmOps
                THEN [step |-> current_step, failed |-> failed_attempts,
                      locked |-> system_locked, counted |-> 0]
                ELSE IF ev'.op \in StoreOps
                  THEN [pre EXCEPT !.counted = failed_attempts']
                  ELSE IF ev'.op \in CountOps THEN pre ELSE NoPre
    /\ undisturbed' =
          IF Baseline(current_step', unlocked', trail', pc') THEN TRUE
          ELSE IF TimerWrote THEN FALSE
          ELSE undisturbed
    /\ UNCHANGED alone

\* The variables of the parts of the program that are run alone, while
\* those parts are not running.
NoKeypad == [col_idx |-> 0, row_idx |-> 0, out |-> {}, first |-> {},
             second |-> {}, key |-> 0]
NoFault == [who |-> "none", op |-> "none", step |-> 0, unlocked |-> FALSE]
NoConfig == [file |-> "none", has_path |-> FALSE, path |-> <<>>,
             has_pin |-> FALSE, has_admin |-> FALSE]
NoBoot == [config |-> NoConfig, hardware |-> "none", has_log |-> FALSE,
           logged |-> 0, raised |-> "none", at |-> 0]
Apart == idle = 0 /\ kp = NoKeypad /\ fault = NoFault /\ boot = NoBoot

\* ---------------------------------------------------------------------- Init
Init ==
    /\ correct_path \in ConfiguredPaths
    /\ current_step = 0
    /\ unlocked = FALSE
    /\ system_locked = FALSE
    /\ failed_attempts = 0
    /\ pc = "loop"
    /\ idx = 0
    /\ reg = 0
    /\ entered_pin = <<>>
    /\ pin_elapsed = 0
    /\ timers = [s \in TimerStates |-> 0]
    /\ stop = "none"
    /\ trail = <<>>
    /\ lock_age = 0
    /\ actuations = 0
    /\ ev = [op |-> "init", lk |-> FALSE, arg |-> 0]
    /\ pre = NoPre
    /\ undisturbed = TRUE
    /\ calls = 0
    /\ line = <<>>
    /\ seen = <<>>
    /\ events = 0
    /\ Apart

\* A variant of reset_system without line 271: unlocked is left as it is.
ResetSystem_KeepsUnlocked ==
    /\ current_step' = 0
    /\ unlocked' = unlocked
    /\ trail' = <<>>

\* ------------------------------------------------------------ reset_system
\* reset_system as called by the main thread (lines 265-273): nothing reads
\* current_step or unlocked between its two writes but the thread itself.
ResetSystem ==
    /\ current_step' = 0
    /\ unlocked' = FALSE
    /\ trail' = <<>>

\* ----------------------------------------------------------------- main_loop
\* main_loop lines 500-503 and check_tree_buttons lines 303-304: a locked
\* system sleeps 0.1 s and looks again; an unlocked one starts a button scan.
LoopCheck ==
    /\ Running /\ pc = "loop"
    /\ IF system_locked
         THEN /\ ev' = Event("loop_locked", 0)
              /\ UNCHANGED <<pc, idx>>
         ELSE /\ pc' = "scan"
              /\ idx' = 0
              /\ ev' = Event("loop_scan", 0)
    /\ UNCHANGED <<correct_path, shared, reg, entered_pin, pin_elapsed, timers,
                   stop, trail, lock_age, actuations>>
    /\ History

\* check_tree_buttons lines 306-317: the for loop runs on from line idx to
\* the next line j that reads pressed and still reads pressed after the 50 ms
\* settle interval; the lines before j read released.  The confirmed press
\* is compared with correct_path[current_step]; an index out of range raises
\* IndexError, which main_loop catches at line 520 to end.
ScanButton ==
    /\ Running /\ pc = "scan"
    /\ \E j \in PressedButtons :
         /\ idx <= j /\ j < NumButtons
         /\ idx' = j
         /\ IF ~InRange(current_step, correct_path)
              THEN /\ stop' = "error"
                   /\ pc' = "stopped"
                   /\ ev' = Event("press_error", j)
              ELSE /\ pc' = IF IsCorrectButton(j, current_step, correct_path)
                              THEN "c_load" ELSE "w_load"
                   /\ ev' = Event(IF IsCorrectButton(j, current_step, correct_path)
                                    THEN "press_correct" ELSE "press_wrong", j)
                   /\ UNCHANGED stop
    /\ UNCHANGED <<correct_path, shared, reg, entered_pin, pin_elapsed, timers,
                   trail, lock_age, actuations>>
    /\ History

\* line 320, first half of "self.current_step += 1": load
CorrectLoad ==
    /\ Running /\ pc = "c_load"
    /\ reg' = current_step
    /\ pc' = "c_store"
    /\ ev' = Event("c_load", idx)
    /\ UNCHANGED <<correct_path, shared, idx, entered_pin, pin_elapsed, timers,
                   stop, trail, lock_age, actuations>>
    /\ History

\* line 320, second half: store
CorrectStore ==
    /\ Running /\ pc = "c_store"
    /\ current_step' = reg + 1
    /\ reg' = 0
    /\ trail' = Append(trail, idx)
    /\ pc' = "c_cmp"
    /\ ev' = Event("c_store", idx)
    /\ UNCHANGED <<correct_path, unlocked, system_locked, failed_attempts, idx,
                   entered_pin, pin_elapsed, timers, stop, lock_age,
                   actuations>>
    /\ History

\* line 323: if self.current_step >= len(self.correct_path)
CorrectCompare ==
    /\ Running /\ pc = "c_cmp"
    /\ pc' = IF SequenceComplete(current_step, correct_path)
               THEN "c_set" ELSE "release"
    /\ ev' = Event("c_cmp", idx)
    /\ UNCHANGED <<correct_path, shared, idx, reg, entered_pin, pin_elapsed,
                   timers, stop, trail, lock_age, actuations>>
    /\ History

\* lines 324-327: self.unlocked = True
CorrectSetUnlocked ==
    /\ Running /\ pc = "c_set"
    /\ unlocked' = TRUE
    /\ pc' = "release"
    /\ ev' = Event("c_set", idx)
    /\ UNCHANGED <<correct_path, current_step, system_locked, failed_attempts,
                   idx, reg, entered_pin, pin_elapsed, timers, stop, trail,
                   lock_age, actuations>>
    /\ History

\* lines 330-332, first half of "self.failed_attempts += 1": load
WrongLoad ==
    /\ Running /\ pc = "w_load"
    /\ reg' = failed_attempts
    /\ pc' = "w_store"
    /\ ev' = Event("w_load", idx)
    /\ UNCHANGED <<correct_path, shared, idx, entered_pin, pin_elapsed, timers,
                   stop, trail, lock_age, actuations>>
    /\ History

\* lines 332-333: the store of failed_attempts, then reset_system()
WrongStore ==
    /\ Running /\ pc = "w_store"
    /\ reg < MaxFailed
    /\ failed_attempts' = reg + 1
    /\ reg' = 0
    /\ ResetSystem
    /\ pc' = "w_cmp"
    /\ ev' = Event("w_store", idx)
    /\ UNCHANGED <<correct_path, system_locked, idx, entered_pin,
                   pin_elapsed, timers, stop, lock_age, actuations>>
    /\ History

\* line 335: at the threshold initiate_lockout is called
WrongCompare ==
    /\ Running /\ pc = "w_cmp"
    /\ pc' = IF LockoutDue(failed_attempts) THEN "w_lock" ELSE "release"
    /\ ev' = Event("w_cmp", idx)
    /\ UNCHANGED <<correct_path, shared, idx, reg, entered_pin, pin_elapsed,
                   timers, stop, trail, lock_age, actuations>>
    /\ History

\* initiate_lockout line 401: self.system_locked = True
SetLocked ==
    /\ system_locked' = TRUE
    /\ lock_age' = 0

\* initiate_lockout lines 399-416, called from check_tree_buttons; the thread
\* is started after the indication.
WrongLock ==
    /\ Running /\ pc = "w_lock"
    /\ SetLocked
    /\ pc' = "w_thread"
    /\ ev' = Event("lockout", idx)
    /\ UNCHANGED <<correct_path, current_step, unlocked, failed_attempts, idx,
                   reg, entered_pin, pin_elapsed, timers, stop, trail,
                   actuations>>
    /\ History

\* initiate_lockout lines 419-421: a new thread running lockout_timer, which
\* sleeps lockout_duration seconds (lines 425-426).
StartTimer ==
    /\ NumTimers < MaxTimers
    /\ timers' = [timers EXCEPT ![Sleeping(CooldownTicks)] = @ + 1]

WrongStartTimer ==
    /\ Running /\ pc = "w_thread"
    /\ StartTimer
    /\ pc' = "release"
    /\ ev' = Event("thread_start", NumTimers)
    /\ UNCHANGED <<correct_path, shared, idx, reg, entered_pin, pin_elapsed,
                   stop, trail, lock_age, actuations>>
    /\ History

\* lines 339-342: the line is sampled until it reads released; then the loop
\* goes on with the next button.
Release ==
    /\ Running /\ pc = "release"
    /\ idx' = idx + 1
    /\ pc' = "scan"
    /\ ev' = Event("wait_release", idx)
    /\ UNCHANGED <<correct_path, shared, reg, entered_pin, pin_elapsed, timers,
                   stop, trail, lock_age, actuations>>
    /\ History

\* Every line from idx on reads released and the for loop is over; main_loop
\* line 506 reads self.unlocked and calls
\* handle_pin_entry (lines 435-439), or sleeps and loops (line 515).
AfterScan ==
    /\ Running /\ pc = "scan"
    /\ IF unlocked
         THEN /\ pc' = "pin"
              /\ entered_pin' = <<>>
              /\ pin_elapsed' = 0
              /\ actuations' = 0
              /\ ev' = Event("pin_start", 0)
         ELSE /\ pc' = "loop"
              /\ ev' = Event("scan_end", 0)
              /\ UNCHANGED <<entered_pin, pin_elapsed, actuations>>
    /\ idx' = 0
    /\ UNCHANGED <<correct_path, shared, reg, timers, stop, trail, lock_age>>
    /\ History

\* A variant of lines 443-446 in which a PIN timeout counts as a failure.
PinTimeout_CountsFailure ==
    /\ Running /\ pc = "pin"
    /\ PinTimedOut(pin_elapsed)
    /\ failed_attempts < MaxFailed
    /\ failed_attempts' = failed_attempts + 1
    /\ ResetSystem
    /\ entered_pin' = <<>>
    /\ pin_elapsed' = 0
    /\ pc' = "loop"
    /\ ev' = Event("pin_timeout", Len(entered_pin))
    /\ UNCHANGED <<correct_path, system_locked, idx, reg,
                   timers, stop, lock_age, actuations>>
    /\ History

\* --------------------------------------------------------- handle_pin_entry
\* lines 441-446: the deadline has passed; handle_pin_entry returns False and
\* main_loop line 513 resets the session.
PinTimeout ==
    /\ Running /\ pc = "pin"
    /\ PinTimedOut(pin_elapsed)
    /\ ResetSystem
    /\ entered_pin' = <<>>
    /\ pin_elapsed' = 0
    /\ pc' = "loop"
    /\ ev' = Event("pin_timeout", Len(entered_pin))
    /\ UNCHANGED <<correct_path, system_locked, failed_attempts, idx, reg,
                   timers, stop, lock_age, actuations>>
    /\ History

\* lines 449-451 and 478: scan_keypad returns None
PinNoKey ==
    /\ Running /\ pc = "pin"
    /\ ~PinTimedOut(pin_elapsed)
    /\ ev' = Event("keypad_idle", Len(entered_pin))
    /\ UNCHANGED <<correct_path, shared, mainLocal, timers, stop, trail,
                   lock_age, actuations>>
    /\ History

\* lines 449-476: scan_keypad returns a key, which is appended.  A PIN that
\* is not complete restarts the deadline (line 476).  A complete PIN is
\* hashed and compared: unlock_mechanism and return True (lines 457-460),
\* admin_mode and return True (461-464), or the failure branch (465-473).
PinKey ==
    /\ Running /\ pc = "pin"
    /\ ~PinTimedOut(pin_elapsed)
    /\ \E key \in Keys :
         LET pin == Append(entered_pin, key) IN
         /\ \E typed \in TypedPins : IsPrefix(pin, typed)
         /\ entered_pin' = pin
         /\ IF Len(pin) # PinLength
              THEN /\ pin_elapsed' = 0
                   /\ ev' = Event("key", key)
                   /\ UNCHANGED <<pc, actuations>>
              ELSE /\ pc' = CASE PinVerdict(pin) = "primary" -> "hold"
                              [] PinVerdict(pin) = "admin" -> "hold"
                              [] OTHER -> "p_load"
                   /\ actuations' = IF PinVerdict(pin) = "primary"
                                      THEN actuations + 1 ELSE actuations
                   /\ ev' = Event(PinVerdict(pin), key)
                   /\ UNCHANGED pin_elapsed
    /\ UNCHANGED <<correct_path, shared, idx, reg, timers, stop, trail,
                   lock_age>>
    /\ History

\* line 468, first half of "self.failed_attempts += 1": load
PinLoad ==
    /\ Running /\ pc = "p_load"
    /\ reg' = failed_attempts
    /\ pc' = "p_store"
    /\ ev' = Event("p_load", 0)
    /\ UNCHANGED <<correct_path, shared, idx, entered_pin, pin_elapsed, timers,
                   stop, trail, lock_age, actuations>>
    /\ History

\* line 468, second half: store
PinStore ==
    /\ Running /\ pc = "p_store"
    /\ reg < MaxFailed
    /\ failed_attempts' = reg + 1
    /\ reg' = 0
    /\ pc' = "p_cmp"
    /\ ev' = Event("p_store", 0)
    /\ UNCHANGED <<correct_path, current_step, unlocked, system_locked, idx,
                   entered_pin, pin_elapsed, timers, stop, trail,
                   lock_age, actuations>>
    /\ History

\* line 470: at the threshold initiate_lockout is called
PinCompare ==
    /\ Running /\ pc = "p_cmp"
    /\ pc' = IF LockoutDue(failed_attempts) THEN "p_lock" ELSE "p_ret"
    /\ ev' = Event("p_cmp", 0)
    /\ UNCHANGED <<correct_path, shared, idx, reg, entered_pin, pin_elapsed,
                   timers, stop, trail, lock_age, actuations>>
    /\ History

\* initiate_lockout lines 399-416, called from handle_pin_entry
PinLock ==
    /\ Running /\ pc = "p_lock"
    /\ SetLocked
    /\ pc' = "p_thread"
    /\ ev' = Event("lockout", NumButtons)
    /\ UNCHANGED <<correct_path, current_step, unlocked, failed_attempts, idx,
                   reg, entered_pin, pin_elapsed, timers, stop, trail,
                   actuations>>
    /\ History

\* initiate_lockout lines 419-421, called from handle_pin_entry
PinStartTimer ==
    /\ Running /\ pc = "p_thread"
    /\ StartTimer
    /\ pc' = "p_ret"
    /\ ev' = Event("thread_start", NumTimers)
    /\ UNCHANGED <<correct_path, shared, idx, reg, entered_pin, pin_elapsed,
                   stop, trail, lock_age, actuations>>
    /\ History

\* line 473 "return False" and main_loop lines 511-513: reset_system()
PinFailReturn ==
    /\ Running /\ pc = "p_ret"
    /\ ResetSystem
    /\ entered_pin' = <<>>
    /\ pin_elapsed' = 0
    /\ pc' = "loop"
    /\ ev' = Event("pin_failed", 0)
    /\ UNCHANGED <<correct_path, system_locked, failed_attempts, idx, reg,
                   timers, stop, lock_age, actuations>>
    /\ History

\* A variant of main_loop without line 510: no reset after the hold.
Hold_NoReset ==
    /\ Running /\ pc = "hold"
    /\ entered_pin' = <<>>
    /\ pin_elapsed' = 0
    /\ actuations' = 0
    /\ pc' = "loop"
    /\ ev' = Event("rearm", 0)
    /\ UNCHANGED <<correct_path, shared, idx, reg, timers, stop, trail,
                   lock_age>>
    /\ History

\* main_loop lines 507-510: after "return True" the loop sleeps 5 s and
\* resets the session.
Hold ==
    /\ Running /\ pc = "hold"
    /\ ResetSystem
    /\ entered_pin' = <<>>
    /\ pin_elapsed' = 0
    /\ actuations' = 0
    /\ pc' = "loop"
    /\ ev' = Event("rearm", 0)
    /\ UNCHANGED <<correct_path, system_locked, failed_attempts, idx, reg,
                   timers, stop, lock_age>>
    /\ History

\* main_loop lines 517-519 and cleanup: KeyboardInterrupt, at any point of
\* the main thread.  The process ends and its daemon threads with it; the
\* fields of the object are gone, and the model leaves them at their initial
\* values.
Shutdown ==
    /\ Running
    /\ stop' = "shutdown"
    /\ pc' = "stopped"
    /\ ev' = [op |-> "shutdown", lk |-> FALSE, arg |-> 0]
    /\ current_step' = 0 /\ unlocked' = FALSE /\ system_locked' = FALSE
    /\ failed_attempts' = 0 /\ idx' = 0 /\ reg' = 0 /\ entered_pin' = <<>>
    /\ pin_elapsed' = 0 /\ timers' = [s \in TimerStates |-> 0]
    /\ trail' = <<>> /\ lock_age' = 0 /\ actuations' = 0
    /\ UNCHANGED correct_path
    /\ History

\* A variant of lockout_timer without line 428: system_locked is left set.
TimerClearLocked_KeepsLocked ==
    /\ Running
    /\ timers[Sleeping(0)] > 0
    /\ timers' = Move(timers, Sleeping(0), Past("t_failed"))
    /\ UNCHANGED <<correct_path, shared, mainLocal, stop, trail, lock_age,
                   actuations, ev>>
    /\ History

\* ------------------------------------------------------------- lockout_timer
\* line 426 returns and line 428 runs: self.system_locked = False
TimerClearLocked ==
    /\ Running
    /\ timers[Sleeping(0)] > 0
    /\ system_locked' = FALSE
    /\ lock_age' = 0
    /\ timers' = Move(timers, Sleeping(0), Past("t_failed"))
    /\ UNCHANGED <<correct_path, current_step, unlocked, failed_attempts,
                   mainLocal, stop, trail, actuations, ev>>
    /\ History

\* line 429: self.failed_attempts = 0
TimerClearFailed ==
    /\ Running
    /\ timers[Past("t_failed")] > 0
    /\ failed_attempts' = 0
    /\ timers' = Move(timers, Past("t_failed"), Past("t_step"))
    /\ UNCHANGED <<correct_path, current_step, unlocked, system_locked,
                   mainLocal, stop, trail, lock_age, actuations, ev>>
    /\ History

\* line 430, reset_system line 270: self.current_step = 0
TimerResetStep ==
    /\ Running
    /\ timers[Past("t_step")] > 0
    /\ current_step' = 0
    /\ trail' = <<>>
    /\ timers' = Move(timers, Past("t_step"), Past("t_unl"))
    /\ UNCHANGED <<correct_path, unlocked, system_locked, failed_attempts,
                   mainLocal, stop, lock_age, actuations, ev>>
    /\ History

\* reset_system line 271: self.unlocked = False; the thread ends after line 431
TimerResetUnlocked ==
    /\ Running
    /\ timers[Past("t_unl")] > 0
    /\ unlocked' = FALSE
    /\ timers' = [timers EXCEPT ![Past("t_unl")] = @ - 1]
    /\ UNCHANGED <<correct_path, current_step, system_locked, failed_attempts,
                   mainLocal, stop, trail, lock_age, actuations, ev>>
    /\ History

\* ---------------------------------------------------------------------- time
\* TickLen seconds pass: for every sleeping lockout thread, for the PIN
\* deadline, and for the age of the lockout.  The main thread is in one of
\* its unbounded waits: main_loop line 515 (again and again), the release
\* loop of lines 339-340, the loop of handle_pin_entry.
Waiting == pc \in {"loop", "release", "pin"}

Tick ==
    /\ Running
    /\ Waiting
    /\ timers' = [s \in TimerStates |->
                    CASE s.pc # "sleep" -> timers[s]
                      [] s.left = 0 -> timers[s] + timers[Sleeping(1)]
                      [] s.left = CooldownTicks -> 0
                      [] OTHER -> timers[Sleeping(s.left + 1)]]
    /\ pin_elapsed' = IF pc = "pin" /\ pin_elapsed < PinTicks
                        THEN pin_elapsed + 1 ELSE pin_elapsed
    /\ lock_age' = IF system_locked /\ lock_age < CooldownTicks
                     THEN lock_age + 1 ELSE lock_age
    /\ UNCHANGED <<correct_path, shared, pc, idx, reg, entered_pin, stop, trail,
                   actuations, ev>>
    /\ History

Next ==
    \/ LoopCheck
    \/ ScanButton
    \/ CorrectLoad
    \/ CorrectStore
    \/ CorrectCompare
    \/ CorrectSetUnlocked
    \/ WrongLoad
    \/ WrongStore
    \/ WrongCompare
    \/ WrongLock
    \/ WrongStartTimer
    \/ Release
    \/ AfterScan
    \/ PinTimeout
    \/ PinNoKey
    \/ PinKey
    \/ PinLoad
    \/ PinStore
    \/ PinCompare
    \/ PinLock
    \/ PinStartTimer
    \/ PinFailReturn
    \/ Hold
    \/ Shutdown
    \/ TimerClearLocked
    \/ TimerClearFailed
    \/ TimerResetStep
    \/ TimerResetUnlocked
    \/ Tick

Spec == Init /\ [][Next]_vars

\* ------------------------------------------------------------------ fairness
\* The steps the main thread takes by itself: everything but the arrival of a
\* press or a key and the shutdown request.  A held button is released in the
\* end (Release).
MainProgress ==
    \/ LoopCheck \/ CorrectLoad \/ CorrectStore \/ CorrectCompare
    \/ CorrectSetUnlocked \/ WrongLoad \/ WrongStore \/ WrongCompare
    \/ WrongLock \/ WrongStartTimer \/ Release \/ AfterScan \/ PinTimeout
    \/ PinLoad \/ PinStore \/ PinCompare \/ PinLock \/ PinStartTimer
    \/ PinFailReturn \/ Hold

\* The steps of the lockout threads after their sleep.
TimerProgress ==
    \/ TimerClearLocked \/ TimerClearFailed
    \/ TimerResetStep \/ TimerResetUnlocked

\* The interpreter schedules every runnable thread, and time passes.
FairSpec ==
    /\ Spec
    /\ WF_vars(MainProgress)
    /\ WF_vars(TimerProgress)
    /\ WF_vars(Tick)

TypeOK ==
    /\ current_step \in 0..(Len(correct_path) + 1)
    /\ unlocked \in BOOLEAN
    /\ system_locked \in BOOLEAN
    /\ failed_attempts \in 0..MaxFailed
    /\ idx \in 0..NumButtons
    /\ Len(entered_pin) <= PinLength
    /\ stop \in {"none", "shutdown", "error"}
    /\ calls \in 0..MaxResets
    /\ Len(line) + Len(seen) \in {0, MaxSamples}
    /\ events \in 0..MaxSamples

\* -------------------------------------------------------- reset_system alone
\* reset_system called MaxResets times in a row, from any values of the
\* fields.  trail stands for the indicators: the LED of every correct press
\* since the last reset is lit (line 319), and reset_system turns all LEDs
\* off (lines 267-268).
Prefixes(path) == {SubSeq(path, 1, n) : n \in 0..Len(path)}

ResetInit ==
    /\ correct_path \in ConfiguredPaths
    /\ current_step \in 0..Len(correct_path)
    /\ unlocked \in BOOLEAN
    /\ system_locked \in BOOLEAN
    /\ failed_attempts \in 0..MaxFailed
    /\ trail \in Prefixes(correct_path)
    /\ pc = "reset"
    /\ idx = 0 /\ reg = 0 /\ entered_pin = <<>> /\ pin_elapsed = 0
    /\ timers = [s \in TimerStates |-> 0]
    /\ stop = "none"
    /\ lock_age = 0 /\ actuations = 0
    /\ ev = [op |-> "init", lk |-> FALSE, arg |-> 0]
    /\ pre = NoPre /\ undisturbed = TRUE
    /\ calls = 0 /\ line = <<>> /\ seen = <<>> /\ events = 0
    /\ Apart

\* reset_system lines 265-273
ResetCall ==
    /\ pc = "reset"
    /\ calls < MaxResets
    /\ ResetSystem
    /\ calls' = calls + 1
    /\ UNCHANGED <<correct_path, system_locked, failed_attempts, mainLocal,
                   timers, stop, lock_age, actuations, history,
                   line, seen, events, apart>>

ResetNext == ResetCall

ResetSpec == ResetInit /\ [][ResetNext]_vars

\* ------------------------------------------------------- one input line alone
\* The samples the code takes of one line, scan after scan: the line of one
\* button in check_tree_buttons (b_...) or of one key in scan_keypad (k_...).
\* The levels the line reads are the input.
Levels == [1..MaxSamples -> BOOLEAN]

DebounceInit ==
    /\ correct_path = DefaultPath
    /\ current_step = 0 /\ unlocked = FALSE /\ system_locked = FALSE
    /\ failed_attempts = 0
    /\ pc \in {"b_first", "k_first"}
    /\ idx = 0 /\ reg = 0 /\ entered_pin = <<>> /\ pin_elapsed = 0
    /\ timers = [s \in TimerStates |-> 0]
    /\ stop = "none"
    /\ trail = <<>> /\ lock_age = 0 /\ actuations = 0
    /\ ev = [op |-> "init", lk |-> FALSE, arg |-> 0]
    /\ pre = NoPre /\ undisturbed = TRUE
    /\ calls = 0
    /\ line \in Levels
    /\ seen = <<>>
    /\ events = 0
    /\ Apart

\* One sample of the line: the next level is read.
Sample ==
    /\ line # <<>>
    /\ line' = Tail(line)
    /\ seen' = Append(seen, Head(line))
    /\ UNCHANGED <<correct_path, shared, idx, reg, entered_pin, pin_elapsed,
                   timers, stop, trail, lock_age, actuations, history, calls,
                   apart>>

\* check_tree_buttons line 310: a released line is passed over until the
\* next scan; a pressed one is sampled again after 50 ms.
ButtonFirst ==
    /\ pc = "b_first"
    /\ Sample
    /\ pc' = IF Head(line) THEN "b_second" ELSE "b_first"
    /\ UNCHANGED events

\* lines 312-336: a line that still reads pressed is a press, which is
\* evaluated; one that reads released is passed over.
ButtonSecond ==
    /\ pc = "b_second"
    /\ Sample
    /\ pc' = IF Head(line) THEN "b_wait" ELSE "b_first"
    /\ events' = IF Head(line) THEN events + 1 ELSE events

\* A variant of check_tree_buttons without the loop of lines 339-340.
ButtonRelease_NoWait ==
    /\ pc = "b_wait"
    /\ Sample
    /\ pc' = "b_first"
    /\ UNCHANGED events

\* lines 339-340: the line is sampled until it reads released.
ButtonRelease ==
    /\ pc = "b_wait"
    /\ Sample
    /\ pc' = IF Head(line) THEN "b_wait" ELSE "b_first"
    /\ UNCHANGED events

\* scan_keypad line 352
KeyFirst ==
    /\ pc = "k_first"
    /\ Sample
    /\ pc' = IF Head(line) THEN "k_second" ELSE "k_first"
    /\ UNCHANGED events

\* lines 356-357
KeySecond ==
    /\ pc = "k_second"
    /\ Sample
    /\ pc' = IF Head(line) THEN "k_wait" ELSE "k_first"
    /\ UNCHANGED events

\* lines 359-364: the line is sampled until it reads released; then the key
\* is returned.
KeyRelease ==
    /\ pc = "k_wait"
    /\ Sample
    /\ pc' = IF Head(line) THEN "k_wait" ELSE "k_first"
    /\ events' = IF Head(line) THEN events ELSE events + 1

DebounceNext ==
    \/ ButtonFirst
    \/ ButtonSecond
    \/ ButtonRelease
    \/ KeyFirst
    \/ KeySecond
    \/ KeyRelease

DebounceSpec == DebounceInit /\ [][DebounceNext]_vars

\* ------------------------------------------------------ handle_pin_entry alone
\* handle_pin_entry with a clock of KeyTickLen seconds, from the entry of the
\* phase to its return.  pin_elapsed is time.time() - start_time in these
\* ticks; any key of Keys may be typed.
EntryTicks == pin_timeout \div KeyTickLen + 1

\* line 443: time.time() - start_time > pin_timeout
DeadlinePassed(elapsed) == elapsed * KeyTickLen > pin_timeout

\* A variant of handle_pin_entry without line 476: start_time is kept.
RestartDeadline_Keep(elapsed) == elapsed

\* line 476: start_time = time.time()
RestartDeadline(elapsed) == 0

EntryInit ==
    /\ correct_path = DefaultPath
    /\ current_step = Len(DefaultPath) /\ unlocked = TRUE
    /\ system_locked = FALSE /\ failed_attempts = 0
    /\ pc = "e_loop"
    /\ idx = 0 /\ reg = 0 /\ entered_pin = <<>> /\ pin_elapsed = 0
    /\ timers = [s \in TimerStates |-> 0]
    /\ stop = "none"
    /\ trail = DefaultPath /\ lock_age = 0 /\ actuations = 0
    /\ ev = [op |-> "pin_start", lk |-> FALSE, arg |-> 0]
    /\ pre = NoPre /\ undisturbed = TRUE
    /\ calls = 0 /\ line = <<>> /\ seen = <<>> /\ events = 0
    /\ Apart

EntryFrame ==
    UNCHANGED <<correct_path, shared, idx, reg, timers, stop, trail, lock_age,
                pre, undisturbed, calls, line, seen, events, kp, fault, boot>>

\* lines 443-446: the deadline has passed, return False
EntryTimeout ==
    /\ pc = "e_loop"
    /\ DeadlinePassed(pin_elapsed)
    /\ pc' = "e_done"
    /\ ev' = Event("pin_timeout", Len(entered_pin))
    /\ UNCHANGED <<entered_pin, pin_elapsed, actuations, idle>>
    /\ EntryFrame

\* lines 449-451 and 478, for KeyTickLen seconds: scan_keypad returns None
\* and the loop sleeps, again and again.
EntryWait ==
    /\ pc = "e_loop"
    /\ ~DeadlinePassed(pin_elapsed)
    /\ pin_elapsed' = pin_elapsed + 1
    /\ idle' = idle + 1
    /\ ev' = Event("keypad_idle", Len(entered_pin))
    /\ UNCHANGED <<pc, entered_pin, actuations>>
    /\ EntryFrame

\* scan_keypad lines 352-357: a key reads pressed, and still does after the
\* settle interval.
EntryKeyDown ==
    /\ pc = "e_loop"
    /\ ~DeadlinePassed(pin_elapsed)
    /\ pc' = "e_held"
    /\ ev' = Event("key_down", Len(entered_pin))
    /\ UNCHANGED <<entered_pin, pin_elapsed, actuations, idle>>
    /\ EntryFrame

\* scan_keypad lines 359-360, for KeyTickLen seconds: the key is held.
EntryHold ==
    /\ pc = "e_held"
    /\ pin_elapsed < EntryTicks
    /\ pin_elapsed' = pin_elapsed + 1
    /\ idle' = IF idle < EntryTicks THEN idle + 1 ELSE idle
    /\ ev' = Event("key_held", Len(entered_pin))
    /\ UNCHANGED <<pc, entered_pin, actuations>>
    /\ EntryFrame

\* scan_keypad lines 359-364 and handle_pin_entry lines 451-476: the key is
\* released, returned and appended.  Four digits are compared and the phase
\* returns; fewer restart the deadline.
EntryKeyUp ==
    /\ pc = "e_held"
    /\ \E key \in Keys :
         LET pin == Append(entered_pin, key) IN
         /\ entered_pin' = pin
         /\ idle' = 0
         /\ IF Len(pin) = PinLength
              THEN /\ pc' = "e_done"
                   /\ ev' = Event(PinVerdict(pin), key)
                   /\ actuations' = IF PinVerdict(pin) = "primary"
                                      THEN actuations + 1 ELSE actuations
                   /\ UNCHANGED pin_elapsed
              ELSE /\ pc' = "e_loop"
                   /\ ev' = Event("key", key)
                   /\ pin_elapsed' = RestartDeadline(pin_elapsed)
                   /\ UNCHANGED actuations
    /\ EntryFrame

EntryNext ==
    \/ EntryTimeout
    \/ EntryWait
    \/ EntryKeyDown
    \/ EntryHold
    \/ EntryKeyUp

EntrySpec == EntryInit /\ [][EntryNext]_vars

\* ----------------------------------------------------------- scan_keypad alone
\* One call of scan_keypad.  __init__ lines 128-134: the row pins, the column
\* pins and the key of every row and column.
keypad_row_pins == <<21, 22, 23>>
keypad_col_pins == <<24, 25, 26>>
keypad_keys == <<<<1, 2, 3>>, <<4, 5, 6>>, <<7, 8, 9>>>>

\* Positions <<row_idx, col_idx>> of the matrix, counted from 0 as enumerate
\* does.
Positions ==
    (0..(Len(keypad_row_pins) - 1)) \X (0..(Len(keypad_col_pins) - 1))

\* The input of a scan: the keys whose row reads LOW when the scan samples
\* them with their column driven (first), and those of them that still read
\* LOW after the settle interval (second).
KeysDown == {h \in SUBSET Positions : Cardinality(h) <= MaxKeysDown}

\* A variant of line 353 with the two indices exchanged.
KeyAt_Transposed(row_idx, col_idx) == keypad_keys[col_idx + 1][row_idx + 1]

\* line 353: key = self.keypad_keys[row_idx][col_idx]
KeyAt(row_idx, col_idx) == keypad_keys[row_idx + 1][col_idx + 1]

KeypadInit ==
    /\ correct_path = DefaultPath
    /\ current_step = Len(DefaultPath) /\ unlocked = TRUE
    /\ system_locked = FALSE /\ failed_attempts = 0
    /\ pc = "kp_col"
    /\ idx = 0 /\ reg = 0 /\ entered_pin = <<>> /\ pin_elapsed = 0
    /\ timers = [s \in TimerStates |-> 0]
    /\ stop = "none"
    /\ trail = DefaultPath /\ lock_age = 0 /\ actuations = 0
    /\ ev = [op |-> "pin_start", lk |-> FALSE, arg |-> 0]
    /\ pre = NoPre /\ undisturbed = TRUE
    /\ calls = 0 /\ line = <<>> /\ seen = <<>> /\ events = 0
    /\ idle = 0 /\ fault = NoFault /\ boot = NoBoot
    /\ \E f \in KeysDown : \E g \in SUBSET f :
         kp = [NoKeypad EXCEPT !.first = f, !.second = g]

KeypadFrame ==
    UNCHANGED <<correct_path, shared, idx, reg, entered_pin, pin_elapsed,
                timers, stop, trail, lock_age, actuations, history,
                calls, line, seen, events, idle, fault, boot>>

\* lines 346-349: the next column is configured as an output and driven LOW.
DriveColumn ==
    /\ pc = "kp_col"
    /\ kp.col_idx < Len(keypad_col_pins)
    /\ kp' = [kp EXCEPT !.out = @ \cup {kp.col_idx}, !.row_idx = 0]
    /\ pc' = "kp_row"
    /\ KeypadFrame

\* lines 351-357: the row reads HIGH, or LOW and then HIGH after the settle
\* interval; the for loop goes on with the next row.
ReadRow ==
    /\ pc = "kp_row"
    /\ kp.row_idx < Len(keypad_row_pins)
    /\ <<kp.row_idx, kp.col_idx>> \notin kp.first \cap kp.second
    /\ kp' = [kp EXCEPT !.row_idx = @ + 1]
    /\ UNCHANGED pc
    /\ KeypadFrame

\* lines 352-364: the row reads LOW at both samples; after the release of
\* the key the column is made an input again and the key is returned.
ReturnKey ==
    /\ pc = "kp_row"
    /\ kp.row_idx < Len(keypad_row_pins)
    /\ <<kp.row_idx, kp.col_idx>> \in kp.first \cap kp.second
    /\ kp' = [kp EXCEPT !.out = @ \ {kp.col_idx},
                        !.key = KeyAt(kp.row_idx, kp.col_idx)]
    /\ pc' = "kp_done"
    /\ KeypadFrame

\* line 366: the rows of the column are done; the column is made an input
\* again.
ReleaseColumn ==
    /\ pc = "kp_row"
    /\ kp.row_idx = Len(keypad_row_pins)
    /\ kp' = [kp EXCEPT !.out = @ \ {kp.col_idx}, !.col_idx = @ + 1]
    /\ pc' = "kp_col"
    /\ KeypadFrame

\* line 368: return None
ReturnNone ==
    /\ pc = "kp_col"
    /\ kp.col_idx = Len(keypad_col_pins)
    /\ kp' = [kp EXCEPT !.key = 0]
    /\ pc' = "kp_done"
    /\ KeypadFrame

KeypadNext ==
    \/ DriveColumn
    \/ ReadRow
    \/ ReturnKey
    \/ ReleaseColumn
    \/ ReturnNone

KeypadSpec == KeypadInit /\ [][KeypadNext]_vars

\* ------------------------------------------- a transition with a failing output
\* The press of the right button (check_tree_buttons lines 314-327) and
\* reset_system (lines 265-273), run alone on hardware one of whose output
\* collaborators raises at every use: the log file (line 260), the buzzer
\* (audio_feedback lines 282-297), the LEDs of the buttons (lines 268, 319)
\* or the status LED (lines 272, 325).
Collaborators == {"log_file", "buzzer", "led", "status_led"}

FaultInit ==
    /\ correct_path \in ConfiguredPaths
    /\ pc \in {"f_press", "f_reset"}
    /\ current_step \in 0..Len(correct_path)
    /\ unlocked \in BOOLEAN
    /\ pc = "f_press" => current_step < Len(correct_path) /\ ~unlocked
    /\ trail = SubSeq(correct_path, 1, current_step)
    /\ idx = IF pc = "f_press" THEN correct_path[current_step + 1] ELSE 0
    /\ system_locked = FALSE /\ failed_attempts = 0
    /\ reg = 0 /\ entered_pin = <<>> /\ pin_elapsed = 0
    /\ timers = [s \in TimerStates |-> 0]
    /\ stop = "none"
    /\ lock_age = 0 /\ actuations = 0
    /\ ev = [op |-> "init", lk |-> FALSE, arg |-> 0]
    /\ pre = NoPre /\ undisturbed = TRUE
    /\ calls = 0 /\ line = <<>> /\ seen = <<>> /\ events = 0
    /\ idle = 0 /\ kp = NoKeypad /\ boot = NoBoot
    /\ \E who \in Collaborators \cup {"none"} :
         fault = [who |-> who,
                  op |-> IF pc = "f_press" THEN "press" ELSE "reset",
                  step |-> current_step, unlocked |-> unlocked]

FaultFrame ==
    UNCHANGED <<correct_path, system_locked, failed_attempts, idx, reg,
                entered_pin, pin_elapsed, timers, lock_age, actuations,
                history, calls, line, seen, events, idle, kp, fault, boot>>

\* lines 314-317: log_event, whose file write is inside try (lines 259-263);
\* audio_feedback("single"), whose buzzer outputs are inside try (lines
\* 281-299); the comparison with the path, which the button passes.
PressConfirmed ==
    /\ pc = "f_press"
    /\ IsCorrectButton(idx, current_step, correct_path)
    /\ pc' = "f_led"
    /\ UNCHANGED <<current_step, unlocked, trail, stop>>
    /\ FaultFrame

\* line 319: self.led_pins[idx].value = True, inside no try
LightLed ==
    /\ pc = "f_led"
    /\ IF fault.who = "led"
         THEN pc' = "f_raise" /\ UNCHANGED trail
         ELSE pc' = "f_step" /\ trail' = Append(trail, idx)
    /\ UNCHANGED <<current_step, unlocked, stop>>
    /\ FaultFrame

\* lines 320-323: the step is advanced and logged, and compared with the
\* length of the path.
Advance ==
    /\ pc = "f_step"
    /\ current_step' = current_step + 1
    /\ pc' = IF SequenceComplete(current_step + 1, correct_path)
               THEN "f_unl" ELSE "f_done"
    /\ UNCHANGED <<unlocked, trail, stop>>
    /\ FaultFrame

\* lines 324-327: self.unlocked = True; GPIO.output of the status LED, inside
\* no try; audio_feedback and log_event.
Complete ==
    /\ pc = "f_unl"
    /\ unlocked' = TRUE
    /\ pc' = IF fault.who = "status_led" THEN "f_raise" ELSE "f_done"
    /\ UNCHANGED <<current_step, trail, stop>>
    /\ FaultFrame

\* reset_system lines 267-268: every LED is written, inside no try
ResetLeds ==
    /\ pc = "f_reset"
    /\ IF fault.who = "led"
         THEN pc' = "f_raise" /\ UNCHANGED trail
         ELSE pc' = "f_fields" /\ trail' = <<>>
    /\ UNCHANGED <<current_step, unlocked, stop>>
    /\ FaultFrame

\* reset_system lines 270-273: the two fields; GPIO.output of the status LED,
\* inside no try; log_event.
ResetFields ==
    /\ pc = "f_fields"
    /\ current_step' = 0
    /\ unlocked' = FALSE
    /\ pc' = IF fault.who = "status_led" THEN "f_raise" ELSE "f_done"
    /\ UNCHANGED <<trail, stop>>
    /\ FaultFrame

\* main_loop lines 520-522: the exception leaves check_tree_buttons or
\* reset_system and ends the loop.
Propagate ==
    /\ pc = "f_raise"
    /\ stop' = "error"
    /\ pc' = "stopped"
    /\ UNCHANGED <<current_step, unlocked, trail>>
    /\ FaultFrame

FaultNext ==
    \/ PressConfirmed
    \/ LightLed
    \/ Advance
    \/ Complete
    \/ ResetLeds
    \/ ResetFields
    \/ Propagate

FaultSpec == FaultInit /\ [][FaultNext]_vars

\* ------------------------------------------------------------ construction alone
\* The main block (lines 531-537): SecureLockboxSystem() and then main_loop().
\* boot holds the inputs of __init__: the configuration file (missing and
\* creatable, missing and not creatable, or present with any of its three
\* keys) and the hardware (the libraries missing: mock mode; present; present
\* with an I2C bus that raises).  It also holds what __init__ has done: whether
\* self.event_log exists, the entries logged, and the exception raised with
\* the line of the call that raised it.
ConfigFiles ==
    {[NoConfig EXCEPT !.file = f] : f \in {"missing", "readonly"}}
      \cup [file : {"present"}, has_path : {TRUE}, path : ConfiguredPaths,
            has_pin : BOOLEAN, has_admin : BOOLEAN]
      \cup [file : {"present"}, has_path : {FALSE}, path : {<<>>},
            has_pin : BOOLEAN, has_admin : BOOLEAN]
Hardware == {"mock", "present", "failing"}

Raised(b) == b.raised # "none"
Raise(b, exc, site) == [b EXCEPT !.raised = exc, !.at = site]

\* log_event lines 248-256, called from line `site`: the entry is appended
\* to self.event_log, which must exist.
log_event(b, site) ==
    IF Raised(b) THEN b
    ELSE IF ~b.has_log THEN Raise(b, "AttributeError", site)
    ELSE [b EXCEPT !.logged = @ + 1]

\* load_configuration lines 212-229: a missing file is created with the
\* defaults, and the creation is logged.
load_configuration(b) ==
    IF b.config.file = "present" THEN b
    ELSE IF b.config.file = "readonly" THEN Raise(b, "OSError", 228)
    ELSE log_event(b, 229)

\* lines 219 and 225: the tree sequence of the file, or the default
ConfiguredPath(c) ==
    IF c.file = "present" /\ c.has_path THEN c.path ELSE DefaultPath

\* setup_gpio_expanders lines 139-189: mock mode logs and returns; otherwise
\* the expanders are set up and the success is logged inside try, and the
\* handler of line 187 logs the failure and raises again.
setup_gpio_expanders(b) ==
    IF Raised(b) THEN b
    ELSE IF b.hardware = "mock" THEN log_event(b, 142)
    ELSE LET tried == IF b.hardware = "failing"
                        THEN Raise(b, "OSError", 148)
                        ELSE log_event(b, 185)
         IN  IF ~Raised(tried) THEN tried
             ELSE LET handled == log_event(b, 188)
                  IN  IF Raised(handled) THEN handled ELSE
                        [handled EXCEPT !.raised = tried.raised,
                                        !.at = tried.at]

\* __init__ lines 115-125: the fields, among them self.event_log = []
create_fields(b) ==
    IF Raised(b) THEN b ELSE [b EXCEPT !.has_log = TRUE, !.logged = 0]

\* __init__ lines 100-137
construct(b) ==
    log_event(create_fields(setup_gpio_expanders(load_configuration(b))), 137)

ConstructInit ==
    /\ correct_path = DefaultPath
    /\ current_step = 0 /\ unlocked = FALSE
    /\ system_locked = FALSE /\ failed_attempts = 0
    /\ pc = "new"
    /\ idx = 0 /\ reg = 0 /\ entered_pin = <<>> /\ pin_elapsed = 0
    /\ timers = [s \in TimerStates |-> 0]
    /\ stop = "none"
    /\ trail = <<>> /\ lock_age = 0 /\ actuations = 0
    /\ ev = [op |-> "init", lk |-> FALSE, arg |-> 0]
    /\ pre = NoPre /\ undisturbed = TRUE
    /\ calls = 0 /\ line = <<>> /\ seen = <<>> /\ events = 0
    /\ idle = 0 /\ kp = NoKeypad /\ fault = NoFault
    /\ \E c \in ConfigFiles, h \in Hardware :
         boot = [NoBoot EXCEPT !.config = c, !.hardware = h]

ConstructFrame ==
    UNCHANGED <<idx, reg, entered_pin, pin_elapsed, timers, trail, lock_age,
                actuations, history, calls, line, seen, events, idle, kp,
                fault>>

\* line 533: lockbox = SecureLockboxSystem().  When __init__ returns, line
\* 534 calls main_loop.
Construct ==
    /\ pc = "new"
    /\ boot' = construct(boot)
    /\ correct_path' = ConfiguredPath(boot.config)
    /\ current_step' = 0 /\ unlocked' = FALSE
    /\ system_locked' = FALSE /\ failed_attempts' = 0
    /\ pc' = IF Raised(boot') THEN "failed" ELSE "loop"
    /\ UNCHANGED stop
    /\ ConstructFrame

\* lines 535-537: the exception of __init__ is printed, GPIO.cleanup() is
\* called and the program ends.
GiveUp ==
    /\ pc = "failed"
    /\ pc' = "stopped"
    /\ stop' = "error"
    /\ UNCHANGED <<correct_path, shared, boot>>
    /\ ConstructFrame

ConstructNext ==
    \/ Construct
    \/ GiveUp

ConstructSpec == ConstructInit /\ [][ConstructNext]_vars

\* =================================================================== claims

\* C1: the actuator (unlock_mechanism) is triggered only if, since the last
\* session reset, every position of the tree path was pressed in order with
\* no wrong press in between, and afterwards a 4-digit PIN whose hash equals
\* the stored primary hash was entered.
C1_ActuatorOnlyAfterPathAndPin ==
    [][actuations' > actuations =>
          /\ trail = correct_path
          /\ Len(entered_pin') = PinLength
          /\ hash_pin(entered_pin') = correct_pin_hash]_vars

\* The main thread is between two presses or past the scan.
AtRest == pc \in {"scan", "loop", "pin", "hold", "p_load", "p_store", "p_cmp",
                  "p_lock", "p_thread", "p_ret"}

\* C2: from the idle session, with nothing but presses of the positions of
\* the tree path in order, every press advances current_step by one,
\* unlocked is true exactly when the last position has been pressed, and the
\* scan that completed the path is followed by PIN entry, not by another
\* round of the loop.
C2_PathInOrderReachesPinEntry ==
    undisturbed =>
        /\ ev.op = "c_store" => current_step = pre.step + 1
        /\ AtRest => /\ current_step = Len(trail)
                     /\ unlocked <=> trail = correct_path
        /\ trail = correct_path => pc # "loop"

C2_Witness ==
    /\ undisturbed /\ pc = "pin" /\ ev.op = "pin_start"
    /\ trail = DefaultPath /\ unlocked /\ current_step = Len(DefaultPath)

\* C3: when the system is not locked, a confirmed press of a button whose
\* index differs from correct_path[current_step] resets current_step to 0 and
\* unlocked to false and increments failed_attempts by exactly 1, whatever
\* current_step was before the press.
C3_WrongButtonResetsAndCounts ==
    /\ ev.op = "press_error" => ev.lk
    /\ (ev.op = "w_store" /\ ~pre.locked /\ undisturbed) =>
          /\ current_step = 0
          /\ ~unlocked
          /\ failed_attempts = pre.failed + 1

\* A wrong PIN is being accounted for: lines 466-473.
PinFailing == pc \in {"p_load", "p_store", "p_cmp", "p_lock", "p_thread",
                      "p_ret"}

\* A step of handle_pin_entry that completes the PIN.
PinCompleted ==
    pc = "pin" /\ Len(entered_pin) = PinLength - 1 /\ Len(entered_pin') = PinLength

\* C4: in PIN entry a 4-digit entry matching the primary hash returns success
\* and triggers the actuator exactly once; one matching the admin hash
\* returns success, enters admin mode and does not trigger the actuator; in
\* neither case is failed_attempts changed.
C4_PrimaryAndAdminPin ==
    /\ [][(PinCompleted /\ hash_pin(entered_pin') = correct_pin_hash) =>
             /\ pc' = "hold" /\ ev'.op = "primary"
             /\ actuations' = 1
             /\ failed_attempts' = failed_attempts]_vars
    /\ [][(PinCompleted /\ hash_pin(entered_pin') # correct_pin_hash
                        /\ hash_pin(entered_pin') = admin_pin_hash) =>
             /\ pc' = "hold" /\ ev'.op = "admin"
             /\ actuations' = 0
             /\ failed_attempts' = failed_attempts]_vars
    /\ [](pc = "hold" => actuations = IF ev.op = "primary" THEN 1 ELSE 0)

C4_Witness ==
    /\ pc = "hold" /\ ev.op = "primary" /\ actuations = 1
    /\ entered_pin = <<1, 2, 3, 4>>

\* C5: in PIN entry a 4-digit entry matching neither hash returns failure,
\* increments failed_attempts by exactly 1 and never triggers the actuator,
\* and the session returns to idle with current_step = 0 and unlocked =
\* false.
C5_WrongPin ==
    /\ [][(PinCompleted /\ hash_pin(entered_pin') # correct_pin_hash
                        /\ hash_pin(entered_pin') # admin_pin_hash) =>
             /\ pc' = "p_load"
             /\ actuations' = 0]_vars
    /\ [][(PinFailing /\ pc' # pc) =>
             /\ actuations' = 0
             /\ PinFailing' \/ pc' \in {"loop", "stopped"}]_vars
    /\ []((ev.op = "p_store" /\ undisturbed) =>
             failed_attempts = pre.failed + 1)
    /\ [](ev.op = "pin_failed" =>
             /\ pc = "loop" /\ current_step = 0 /\ ~unlocked
             /\ entered_pin = <<>> /\ actuations = 0)

C5_Witness ==
    /\ ev.op = "pin_failed" /\ undisturbed /\ pc = "loop"
    /\ failed_attempts = 1 /\ ~system_locked

Accounting == pc \in {"w_cmp", "p_cmp"}

\* C7: three failures, in any mix of wrong button and wrong PIN, set
\* system_locked: as soon as a failure has raised failed_attempts to
\* max_attempts the lockout is entered, and system_locked is never set while
\* failed_attempts is below max_attempts.
C7_LockoutAtThreshold ==
    /\ [][(Accounting /\ pc' # pc /\ Running'
              /\ pre.counted >= max_attempts) =>
             pc' \in {"w_lock", "p_lock"}]_vars
    /\ [][(~system_locked /\ system_locked') =>
             failed_attempts >= max_attempts]_vars

\* C8: after every execution of initiate_lockout, system_locked stays true
\* until the full cooldown has elapsed counted from that execution; it
\* becomes false only through the expiry of the cooldown.
C8_LockedForFullCooldown ==
    [][(system_locked /\ ~system_locked' /\ Running') =>
          lock_age >= CooldownTicks]_vars

\* C9: at every moment at most one cooldown task is pending.
C9_OneCooldownTask == NumTimers <= 1

\* The steps of the main thread that sample a button line or a keypad line.
SampleOps == {"press_correct", "press_wrong", "press_error", "wait_release",
              "scan_end", "pin_start", "keypad_idle", "key", "primary",
              "admin", "invalid"}

\* C10: while system_locked is true no button line and no keypad line is
\* sampled, and no press is evaluated against the tree path or appended to
\* the PIN; also for the remaining buttons of the scan that triggered the
\* lockout.
C10_NoSamplingWhileLocked ==
    ev.op \in SampleOps => ~ev.lk

\* C11: while system_locked is true, failed_attempts is never incremented
\* and never read as the trigger of a new lockout: from the moment
\* system_locked is set to the moment it is cleared, failed_attempts keeps
\* its value.
C11_CounterFrozenWhileLocked ==
    /\ [][(system_locked /\ system_locked') =>
             failed_attempts' = failed_attempts]_vars
    /\ [][(system_locked /\ Accounting /\ pc' # pc) =>
             pc' \notin {"w_lock", "p_lock"}]_vars

\* C13: failed_attempts is reset to 0 on a successful unlock: when the hold
\* after a primary PIN ends and the session is rearmed, failed_attempts = 0.
C13_SuccessClearsFailures ==
    [][(pc = "hold" /\ ev.op = "primary" /\ pc' = "loop") =>
          failed_attempts' = 0]_vars

\* C14: no sequence of presses, keys, PIN timeouts or lockouts ends the main
\* loop: it ends only on the shutdown request.
C14_LoopEndsOnlyOnShutdown ==
    pc = "stopped" => stop = "shutdown"

\* C15: the failure accounting of the main thread is atomic with respect to
\* the reset of the cooldown task: the value a failure stores is one above
\* the value failed_attempts has at the store (no reset and no increment is
\* lost), and outside the accounting system_locked = false never goes with
\* failed_attempts >= max_attempts.
C15_AccountingAtomic ==
    /\ [][(pc \in {"w_store", "p_store"} /\ pc' # pc /\ Running') =>
             failed_attempts' = failed_attempts + 1]_vars
    /\ []((Running /\ pc \notin {"w_cmp", "w_lock", "p_cmp", "p_lock"}
                  /\ failed_attempts >= max_attempts) => system_locked)

\* C19: in every reachable state 0 <= current_step <= len(correct_path), and
\* a confirmed press is compared with correct_path[current_step] only with
\* current_step < len(correct_path).
C19_StepInRange ==
    /\ current_step \in 0..Len(correct_path)
    /\ ev.op \in {"press_correct", "press_wrong", "press_error"} =>
          pre.step < Len(correct_path)

\* A lockout thread runs its last line: the cooldown expiry is complete.
ExpiryCompletes ==
    timers'[Past("t_unl")] < timers[Past("t_unl")] /\ Running'

\* C12: the cooldown expiry sets system_locked = false, failed_attempts = 0,
\* current_step = 0 and unlocked = false: when it completes, the system is in
\* the initial idle state.
C12_ExpiryRestoresIdle ==
    [][ExpiryCompletes =>
          /\ ~system_locked'
          /\ failed_attempts' = 0
          /\ current_step' = 0
          /\ ~unlocked']_vars

\* The main thread is scanning the buttons of an unlocked system.
Polling == ~system_locked /\ pc = "scan"

\* The main thread has taken an input of the user with its last step, or is
\* accounting for one.
UserActs == {"press_correct", "press_wrong", "press_error", "key", "primary",
             "admin", "invalid", "shutdown"}
UserBusy ==
    \/ ev.op \in UserActs
    \/ pc \in {"c_load", "c_store", "c_cmp", "c_set", "w_load", "w_store",
               "w_cmp", "p_load", "p_store", "p_cmp"}

\* The main thread is about to start a lockout thread beyond MaxTimers: the
\* model does not follow the run further.
ThreadLimit == pc \in {"w_thread", "p_thread"} /\ NumTimers >= MaxTimers

\* C16: every lockout clears itself: whenever system_locked is true then,
\* with the threads scheduled fairly and unless the user acts again,
\* system_locked becomes false and the main thread is scanning the buttons
\* again.
C16_LockoutClearsItself ==
    system_locked ~> (Polling \/ UserBusy \/ ThreadLimit)

C16_Witness ==
    /\ Polling /\ ev.op = "loop_scan"
    /\ timers[Past("t_failed")] > 0 /\ failed_attempts >= max_attempts

\* The main thread is about to store a failed_attempts beyond MaxFailed: the
\* model does not follow the run further.
CounterLimit == pc \in {"w_store", "p_store"} /\ reg >= MaxFailed

\* The main thread is in handle_pin_entry or in the hold after its success.
PinPhase == pc \in {"pin", "hold", "p_load", "p_store", "p_cmp", "p_lock",
                    "p_thread", "p_ret"}

\* C17: after every outcome of the PIN phase (primary success after the
\* hold, admin success, wrong PIN, timeout) the session is reset to
\* current_step = 0 and unlocked = false before the next press is evaluated:
\* the PIN phase is left only for the loop and with the session reset, the
\* loop is never entered with unlocked true, and the PIN phase always ends.
C17_PinOutcomeResetsSession ==
    /\ [][(PinPhase /\ ~PinPhase' /\ Running') =>
             /\ pc' = "loop"
             /\ current_step' = 0 /\ ~unlocked'
             /\ trail' = <<>> /\ entered_pin' = <<>>]_vars
    /\ [](pc = "loop" => ~unlocked)
    /\ PinPhase ~> (~PinPhase \/ ThreadLimit \/ CounterLimit)

C17_Witness ==
    /\ ev.op = "rearm" /\ pc = "loop" /\ pre = NoPre
    /\ current_step = 0 /\ ~unlocked /\ trail = <<>> /\ entered_pin = <<>>

\* C18: reset_system is idempotent: a call leaves current_step = 0, unlocked
\* = false and all indicators off, a second call in a row changes nothing,
\* and no call changes failed_attempts or system_locked.
C18_ResetIdempotent ==
    [][(pc = "reset" /\ calls' = calls + 1) =>
          /\ current_step' = 0 /\ ~unlocked' /\ trail' = <<>>
          /\ failed_attempts' = failed_attempts
          /\ system_locked' = system_locked
          /\ calls >= 1 => /\ current_step' = current_step
                           /\ unlocked' = unlocked
                           /\ trail' = trail]_vars

C18_Witness ==
    /\ pc = "reset" /\ calls = 2
    /\ current_step = 0 /\ ~unlocked /\ trail = <<>>
    /\ system_locked /\ failed_attempts = 2

\* The presses in the samples s: a level that reads pressed at two samples
\* in a row after a released one (or from the start) is one press, however
\* many pressed samples follow.
Presses(s) ==
    Cardinality({i \in 2..Len(s) : s[i] /\ s[i - 1] /\ (i = 2 \/ ~s[i - 2])})

\* The presses in s that have ended with a released sample.
PressesReleased(s) ==
    Cardinality({i \in 3..Len(s) :
        /\ ~s[i] /\ s[i - 1]
        /\ \E j \in 1..(i - 2) :
              /\ \A k \in j..(i - 1) : s[k]
              /\ (j = 1 \/ ~s[j - 1])})

\* C20: a level that reads pressed and then released after the settle
\* interval produces no event; a press still present after the settle
\* interval produces exactly one event, however long the line stays
\* pressed.
C20_Debounce ==
    /\ pc \in {"b_first", "b_second", "b_wait"} => events = Presses(seen)
    /\ pc \in {"k_first", "k_second", "k_wait"} => events = PressesReleased(seen)

C20_Witness ==
    /\ pc = "b_first" /\ events = 1
    /\ seen = <<TRUE, FALSE, TRUE, TRUE, TRUE, FALSE>>

\* The outcomes of handle_pin_entry that compare the PIN with the hashes.
Verdicts == {"primary", "admin", "invalid"}

\* C21: in PIN entry the PIN is compared with the stored hashes only when
\* the buffer holds exactly 4 digits, and a buffer of 4 digits is compared
\* at once; each accepted key that leaves fewer than 4 digits restarts the
\* deadline; the timeout outcome occurs only when more than pin_timeout
\* seconds have passed with no accepted key since the last key or since the
\* entry of the phase.
C21_DeadlineRestartsOnKey ==
    /\ [](ev.op \in Verdicts <=> Len(entered_pin) = PinLength)
    /\ [][(ev'.op = "key" /\ ev' # ev) =>
             /\ Len(entered_pin') < PinLength
             /\ pin_elapsed' = 0]_vars
    /\ [](ev.op = "pin_timeout" =>
             /\ idle * KeyTickLen > pin_timeout
             /\ Len(entered_pin) < PinLength)
    /\ [](pc = "e_loop" => pin_elapsed = idle)

C21_Witness ==
    /\ pc = "e_done" /\ ev.op = "pin_timeout" /\ Len(entered_pin) = 3
    /\ idle = EntryTicks

\* The place of a position in column-major order: lowest column first, then
\* the top row within the column.
ColumnMajor(p) == p[2] * Len(keypad_row_pins) + p[1]

\* The key printed at a position of the keypad: 1 2 3 / 4 5 6 / 7 8 9.
Printed(p) == p[1] * Len(keypad_col_pins) + p[2] + 1

\* The key a scan is to return for the confirmed keys c; 0 stands for None.
FirstConfirmed(c) ==
    IF c = {} THEN 0
    ELSE Printed(CHOOSE p \in c : \A q \in c : ColumnMajor(p) <= ColumnMajor(q))

\* C22: one keypad scan returns at most one key: of the keys confirmed
\* pressed the first in column-major order, and none when no key is
\* confirmed; on every return path no column is left configured as an
\* output, and during the scan at most one column is an output.
C22_KeypadScanOrder ==
    /\ pc = "kp_done" => /\ kp.key = FirstConfirmed(kp.first \cap kp.second)
                         /\ kp.out = {}
    /\ pc \in {"kp_col", "kp_row"} => /\ Cardinality(kp.out) <= 1
                                      /\ kp.key = 0

C22_Witness ==
    /\ pc = "kp_done" /\ kp.key = 4 /\ kp.out = {}
    /\ kp.first = {<<0, 1>>, <<1, 0>>} /\ kp.second = kp.first

\* The transition has run to its end: normally, or by ending the main loop.
TransitionOver == pc \in {"f_done", "stopped"}

\* C23: a failure of a feedback or logging collaborator (log file, buzzer,
\* LED, status LED) during a transition is swallowed: when the transition is
\* over, current_step and unlocked are what they are when no collaborator
\* fails, failed_attempts and system_locked are untouched, and the main loop
\* is still running.
C23_FeedbackFailuresSwallowed ==
    /\ stop = "none"
    /\ (TransitionOver /\ fault.op = "press") =>
          /\ current_step = fault.step + 1
          /\ unlocked = SequenceComplete(fault.step + 1, correct_path)
    /\ (TransitionOver /\ fault.op = "reset") =>
          /\ current_step = 0
          /\ ~unlocked
    /\ failed_attempts = 0 /\ ~system_locked

\* C24: for every configured tree path, also one that is not increasing in
\* the index of its buttons, handle_pin_entry is never started and
\* unlock_mechanism is never called while system_locked is true.
C24_NoPinEntryWhileLocked ==
    /\ [][(pc = "scan" /\ pc' = "pin") => ~system_locked]_vars
    /\ [][actuations' > actuations => ~system_locked]_vars

\* A lockout thread is past its sleep and runs line 428.
TimerFires == timers'[Sleeping(0)] < timers[Sleeping(0)] /\ Running'

\* A lockout thread runs line 429, 270 or 271.
TimerResets ==
    /\ Running'
    /\ \/ timers'[Past("t_failed")] < timers[Past("t_failed")]
       \/ timers'[Past("t_step")] < timers[Past("t_step")]
       \/ timers'[Past("t_unl")] < timers[Past("t_unl")]

\* The main thread is counting a right press that it confirmed while
\* system_locked was false.
FreshAttempt == ev.op \in {"c_load", "c_store"} /\ ~pre.locked

\* C25: whenever a cooldown task fires, system_locked is true at that
\* moment; and the expiry of a cooldown never changes current_step, unlocked
\* or failed_attempts under an attempt that was started while system_locked
\* was false.
C25_ExpiryOnlyWhileLocked ==
    /\ [][TimerFires => system_locked]_vars
    /\ [][(TimerResets /\ FreshAttempt) =>
             /\ current_step' = current_step
             /\ unlocked' = unlocked
             /\ failed_attempts' = failed_attempts]_vars

\* C26: in every reachable state unlocked = true implies current_step =
\* len(correct_path), and handle_pin_entry is entered only with current_step
\* = len(correct_path).
C26_UnlockedMeansPathComplete ==
    /\ [](unlocked => current_step = Len(correct_path))
    /\ [][(pc = "scan" /\ pc' = "pin") =>
             current_step = Len(correct_path)]_vars

\* Every hardware collaborator initialises without error: the I2C bus does
\* not raise.
HardwareFine == boot.hardware \in {"mock", "present"}

\* C27: when every hardware collaborator initialises without error and the
\* configuration file is present or can be created, construction completes
\* and the main loop starts with system_locked = false, failed_attempts = 0,
\* current_step = 0 and unlocked = false; no event is logged before the event
\* log exists.
C27_ConstructionCompletes ==
    /\ boot.raised # "AttributeError"
    /\ (HardwareFine /\ boot.config.file # "readonly") =>
          /\ pc \in {"new", "loop"}
          /\ stop = "none"
          /\ pc = "loop" => /\ boot.has_log
                            /\ ~system_locked /\ failed_attempts = 0
                            /\ current_step = 0 /\ ~unlocked

====
